---- MODULE Spec2Model ----
(***************************************************************************)
(* LiquidFlow agent (src/agent/server.js): the event store, the reward     *)
(* calculator, the event listener and the POST /api/claim orchestrator.    *)
(*                                                                         *)
(* Node runs every handler on one thread: a handler runs without           *)
(* interruption from one await to the next, so each action below is the    *)
(* code between two awaits of a handler.                                   *)
(*                                                                         *)
(* Amounts are BigInt values that the code stores as decimal strings       *)
(* (x.toString()) and reads back with BigInt(s); both are exact on every   *)
(* integer, so an amount is modelled by the integer itself.  Fields the    *)
(* code stores but never reads (poolId, chainId, txHash, blockNumber,      *)
(* burnTx, messageHash, messageBytes, timestamp, amountUSDC,               *)
(* attestationStatus, attestationTime) are left out of the records.        *)
(***************************************************************************)
EXTENDS Integers, Sequences, FiniteSets, TLC

\* ------------------------------------------------------------- bounds
MaxEvents == 2        \* events the log holds at most
MaxTime == 1          \* the clock ranges over 0..MaxTime
TreasuryFunds == 3    \* USDC base units the treasury holds at start
MaxReqs == 1          \* POST /api/claim requests made in one run

\* ------------------------------------------------- program constants
maxAttempts == 60
SEPOLIA == 11155111
BASE_SEPOLIA == 84532

Reqs == 1..MaxReqs
CCTP_CONTRACTS == {SEPOLIA, BASE_SEPOLIA}
\* the liquidity providers: 0xA1 uses the hook on Ethereum, 0xB2 the hook on Base
EventAddrs == {"0xA1", "0xB2"}
HookOf(provider) == IF provider = "0xA1" THEN "ethereum" ELSE "base"
ReqAddrs == {"0xa1", "0xB2", "0xC3"}
NoAmount == 0          \* req.body.amount absent (or any falsy value)
Amounts == 0..(TreasuryFunds + 1)
\* the destinations of the requests: the two configured chains and a chain id
\* (Arbitrum Sepolia) with no entry in CCTP_CONTRACTS
DestChains == {SEPOLIA, BASE_SEPOLIA, 421614}

\* String.prototype.toLowerCase on the addresses of the model
toLowerCase(a) ==
    CASE a = "0xA1" -> "0xa1"
      [] a = "0xB2" -> "0xb2"
      [] a = "0xC3" -> "0xc3"
      [] OTHER -> a

\* BigInt division: truncates toward zero
Abs(x) == IF x < 0 THEN -x ELSE x
BigIntDiv(a, b) ==
    IF (a < 0) = (b < 0) THEN Abs(a) \div Abs(b) ELSE -(Abs(a) \div Abs(b))

RECURSIVE SumOver(_, _)
SumOver(S, f) ==
    IF S = {} THEN 0
    ELSE LET x == CHOOSE y \in S : TRUE IN f[x] + SumOver(S \ {x}, f)

RECURSIVE Ascending(_)
Ascending(S) ==
    IF S = {} THEN << >>
    ELSE LET m == CHOOSE x \in S : \A y \in S : x <= y
         IN <<m>> \o Ascending(S \ {m})

VARIABLES
    events,           \* data.events
    claimed,          \* data.claimed: lowercased address -> amount
    claims,           \* data.claims
    disk,             \* the document in ./data.json
    now,              \* Math.floor(Date.now() / 1000)
    treasuryBalance,  \* USDC balanceOf(treasury) on Ethereum Sepolia
    allowance,        \* USDC allowance(treasury, tokenMessenger)
    body,             \* per request: req.body as received, NoBody before that
    req,              \* per request: position in the handler and its locals
    attested,         \* requests whose message the attestation API has attested
    sent,             \* per request: the HTTP responses written to res
    submitted,        \* transactions the treasury signer has submitted
    burned,           \* per request: amount its burn took out of the treasury
    returned          \* what the calls of calculateRewards made on their own returned

vars == <<events, claimed, claims, disk, now, treasuryBalance, allowance,
          body, req, attested, sent, submitted, burned, returned>>

\* ------------------------------------------------------------ storage
\* data.claimed[a] || '0'
ClaimedOf(ledger, a) == IF a \in DOMAIN ledger THEN ledger[a] ELSE 0

\* the ledger update with the amount subtracted
LedgerSubtract(ledger, a, amount) ==
    [k \in DOMAIN ledger \cup {a} |->
        IF k = a THEN ClaimedOf(ledger, a) - amount ELSE ledger[k]]

\* the ledger update as the first agent had it: the amount stored, not added
LedgerAssign(ledger, a, amount) ==
    [k \in DOMAIN ledger \cup {a} |-> IF k = a THEN amount ELSE ledger[k]]

\* data.claimed[a] = (previousClaimed + amount).toString()
LedgerAdd(ledger, a, amount) ==
    [k \in DOMAIN ledger \cup {a} |->
        IF k = a THEN ClaimedOf(ledger, a) + amount ELSE ledger[k]]

Document(ev, led, cl) == [events |-> ev, claimed |-> led, claims |-> cl]

\* saveData as the first agent had it: a document without the claims list
saveDataWithoutClaims(ok, ev, led, cl) ==
    IF ok THEN [events |-> ev, claimed |-> led] ELSE disk

\* saveData: writeFileSync either replaces the whole document or throws and
\* leaves the file as it was.  ok is the outcome of the write.
saveData(ok, ev, led, cl) == IF ok THEN Document(ev, led, cl) ELSE disk

\* data.json when it holds no document: the file is not there, or holds only
\* white space, or holds text that JSON.parse rejects
NoFile == [kind |-> "missing"]
BlankFile == [kind |-> "blank"]
TornFile == [kind |-> "unparseable"]

\* loadData with a document that has no claims list taken for a damaged file
loadDataRejectsLegacy(file) ==
    IF "events" \notin DOMAIN file \/ "claims" \notin DOMAIN file
      THEN [events |-> << >>, claimed |-> [k \in {} |-> 0], claims |-> << >>]
    ELSE file

\* loadData on what data.json holds: the empty store when existsSync or
\* content.trim() is false or JSON.parse throws (lines 70-72, 77-80), else the
\* parsed document, to which line 75 gives an empty claims list if it has none
loadData(file) ==
    IF "events" \notin DOMAIN file
      THEN [events |-> << >>, claimed |-> [k \in {} |-> 0], claims |-> << >>]
    ELSE IF "claims" \in DOMAIN file THEN file
    ELSE [events |-> file.events, claimed |-> file.claimed, claims |-> << >>]

\* ------------------------------------------------- calculateRewards
\* the fold of lines 103-118 without the test of line 105
IsAnyEvent(e) == TRUE

\* line 105: event.type === 'LiquidityAdded'
IsAdded(e) == e.type = "LiquidityAdded"

\* the keys of the positions Map, in insertion order
PositionKeys(ev) ==
    LET first == {i \in 1..Len(ev) :
                    /\ IsAdded(ev[i])
                    /\ \A j \in 1..(i - 1) :
                         ~(IsAdded(ev[j])
                           /\ toLowerCase(ev[j].provider) = toLowerCase(ev[i].provider))}
        idx == Ascending(first)
    IN [n \in 1..Len(idx) |-> toLowerCase(ev[idx[n]].provider)]

\* the first LiquidityAdded event of key k: it sets lastUpdate, chain, provider
FirstAdded(ev, k) ==
    ev[CHOOSE i \in 1..Len(ev) :
          /\ IsAdded(ev[i]) /\ toLowerCase(ev[i].provider) = k
          /\ \A j \in 1..(i - 1) :
               ~(IsAdded(ev[j]) /\ toLowerCase(ev[j].provider) = k)]

\* the liquidity of a position with an event row that is in the log more than
\* once counted once
LiquidityOfDistinctRows(ev, k) ==
    LET mine == {i \in 1..Len(ev) :
                    /\ ev[i].type = "LiquidityAdded" /\ toLowerCase(ev[i].provider) = k
                    /\ \A j \in 1..(i - 1) : ev[j] # ev[i]}
    IN SumOver(mine, [i \in mine |-> ev[i].liquidityDelta])

\* the liquidity of a position with the deltas of the Removed events added in
LiquidityNet(ev, k) ==
    LET mine == {i \in 1..Len(ev) : toLowerCase(ev[i].provider) = k}
    IN SumOver(mine, [i \in mine |-> ev[i].liquidityDelta])

\* lines 113-116: the sum of the liquidityDelta of the Added events of key k
Liquidity(ev, k) ==
    LET mine == {i \in 1..Len(ev) :
                    IsAdded(ev[i]) /\ toLowerCase(ev[i].provider) = k}
    IN SumOver(mine, [i \in mine |-> ev[i].liquidityDelta])

LiquidityTime(ev, k, t) == Liquidity(ev, k) * (t - FirstAdded(ev, k).timestamp)

TotalLiquidityTime(ev, t) ==
    LET keys == PositionKeys(ev)
    IN SumOver(1..Len(keys), [n \in 1..Len(keys) |-> LiquidityTime(ev, keys[n], t)])

\* line 132 with the quotient rounded up
TotalRewardRoundedUp(ev, k, t, balance) ==
    LET n == LiquidityTime(ev, k, t) * balance
        d == TotalLiquidityTime(ev, t)
    IN BigIntDiv(n, d) + (IF n % Abs(d) = 0 THEN 0 ELSE 1)

\* line 132: (pos.liquidityTime * BigInt(treasuryBalance)) / totalLiquidityTime
TotalReward(ev, k, t, balance) ==
    BigIntDiv(LiquidityTime(ev, k, t) * balance, TotalLiquidityTime(ev, t))

\* line 130 testing every position's liquidityTime instead of their sum
NoLiquidityTimeInAnyPosition(ev, t) ==
    \A n \in 1..Len(PositionKeys(ev)) : LiquidityTime(ev, PositionKeys(ev)[n], t) = 0

\* line 130: totalLiquidityTime === 0n
NoLiquidityTime(ev, t) == TotalLiquidityTime(ev, t) = 0

\* what the BigInt division of line 132 throws when its divisor is 0n
RangeError == <<[error |-> "RangeError: Division by zero"]>>

\* calculateRewards with line 133 reading data.claimed[pos.provider], the
\* address as the first event spelt it
calculateRewardsClaimedBySpelling(ev, t, balance, ledger) ==
    LET keys == PositionKeys(ev)
    IN IF Len(keys) = 0 \/ NoLiquidityTime(ev, t) THEN << >>
       ELSE [n \in 1..Len(keys) |->
              LET k == keys[n]
                  totalReward == TotalReward(ev, k, t, balance)
                  c == ClaimedOf(ledger, FirstAdded(ev, k).provider)
              IN [provider |-> FirstAdded(ev, k).provider,
                  chain |-> FirstAdded(ev, k).chain,
                  pending |-> IF totalReward > c THEN totalReward - c ELSE 0,
                  claimed |-> c,
                  total |-> totalReward]]

\* calculateRewards with the positions folded from ev, the clock t, the
\* treasury balance read, and the ledger as it is when the balance arrives
calculateRewards(ev, t, balance, ledger) ==
    LET keys == PositionKeys(ev)
    IN IF Len(keys) = 0 \/ NoLiquidityTime(ev, t) THEN << >>
       ELSE IF TotalLiquidityTime(ev, t) = 0 THEN RangeError
       ELSE [n \in 1..Len(keys) |->
              LET k == keys[n]
                  totalReward == TotalReward(ev, k, t, balance)
                  c == ClaimedOf(ledger, k)
              IN [provider |-> FirstAdded(ev, k).provider,
                  chain |-> FirstAdded(ev, k).chain,
                  pending |-> IF totalReward > c THEN totalReward - c ELSE 0,
                  claimed |-> c,
                  total |-> totalReward]]

\* a find that compares the provider as the event spelt it
FindRewardCaseSensitive(rewards, a) ==
    LET hits == {n \in 1..Len(rewards) : rewards[n].provider = a}
    IN IF hits = {} THEN 0 ELSE CHOOSE n \in hits : \A m \in hits : n <= m

\* rewards.find(r => r.provider.toLowerCase() === a): index of the entry, or 0
FindReward(rewards, a) ==
    LET hits == {n \in 1..Len(rewards) : toLowerCase(rewards[n].provider) = a}
    IN IF hits = {} THEN 0 ELSE CHOOSE n \in hits : \A m \in hits : n <= m


\* ------------------------------------------------------ initial state
EmptyLedger == [k \in {} |-> 0]

NoBody == [address |-> "", amount |-> NoAmount, destinationChainId |-> 0]

Idle ==
    [pc |-> "idle", positions |-> << >>, now |-> 0, pending |-> 0,
     claimAmount |-> 0, attemptCount |-> 0]

\* a handler that has returned holds no locals
Done == [Idle EXCEPT !.pc = "done"]

\* no call of calculateRewards has returned yet
NoCall == [calls |-> 0, rewards |-> << >>]

\* loadData on a fresh deployment: no data.json, the empty store
Init ==
    /\ events = << >>
    /\ claimed = EmptyLedger
    /\ claims = << >>
    /\ disk = Document(<< >>, EmptyLedger, << >>)
    /\ now = 0
    /\ treasuryBalance = TreasuryFunds
    /\ allowance = 0
    /\ body = [r \in Reqs |-> NoBody]
    /\ req = [r \in Reqs |-> Idle]
    /\ attested = {}
    /\ sent = [r \in Reqs |-> << >>]
    /\ submitted = {}
    /\ burned = [r \in Reqs |-> 0]
    /\ returned = NoCall

\* --------------------------------------------------------- environment
\* the wall clock advances
Tick ==
    /\ now < MaxTime
    /\ now' = now + 1
    /\ UNCHANGED <<events, claimed, claims, disk, treasuryBalance, allowance,
                   body, req, attested, sent, submitted, burned, returned>>

\* the hook emits LiquidityAdded with a positive liquidityDelta and
\* LiquidityRemoved with a negative one, stamped with the block time, which is
\* not ahead of the agent's clock when the listener is called
Deltas(type) == IF type = "LiquidityAdded" THEN {1, 2} ELSE {-1}

\* ------------------------------------------------------ event listener
\* the listener with data.events.unshift: the newest event first
handleEventUnshift(chain, type, provider, liquidityDelta, timestamp, written) ==
    /\ Len(events) < MaxEvents
    /\ events' = <<[type |-> type, chain |-> chain, provider |-> provider,
                    liquidityDelta |-> liquidityDelta, timestamp |-> timestamp]>>
                   \o events
    /\ disk' = saveData(written, events', claimed, claims)
    /\ UNCHANGED <<claimed, claims, now, treasuryBalance, allowance,
                   body, req, attested, sent, submitted, burned, returned>>

\* handleEvent(chain, type): push the event, then saveData
handleEvent(chain, type, provider, liquidityDelta, timestamp, written) ==
    /\ Len(events) < MaxEvents
    /\ events' = Append(events,
                        [type |-> type, chain |-> chain, provider |-> provider,
                         liquidityDelta |-> liquidityDelta, timestamp |-> timestamp])
    /\ disk' = saveData(written, events', claimed, claims)
    /\ UNCHANGED <<claimed, claims, now, treasuryBalance, allowance,
                   body, req, attested, sent, submitted, burned, returned>>


\* ------------------------------------------------- POST /api/claim
\* what res.status(code).json(body) writes; a key the body leaves out is "" or 0
ErrorBody(code, message) ==
    [code |-> code, error |-> message, status |-> "", claimId |-> 0,
     amount |-> 0, remaining |-> 0]

ClaimBody(code, status, claimId, amount, remaining) ==
    [code |-> code, error |-> "", status |-> status, claimId |-> claimId,
     amount |-> amount, remaining |-> remaining]

\* res.status(..).json(..) followed by the handler's return
Respond(r, json) ==
    /\ sent' = [sent EXCEPT ![r] = Append(@, json)]
    /\ req' = [req EXCEPT ![r] = Done]

\* `claim_${Date.now()}_${Math.random()...}`: one fresh id per request
ClaimId(r) == r

\* line 285 with the chain id compared as the string '11155111': never equal
\* to the number in the body
SameChainAsString(destinationChainId) == FALSE

\* line 285: destinationChainId === 11155111
SameChain(destinationChainId) == destinationChainId = SEPOLIA

\* lines 282-297, up to the await inside calculateRewards: the destination
\* check, the fold of data.events into positions, and the clock read
ClaimStart(r, address, amount, destinationChainId) ==
    /\ req[r].pc = "idle"
    /\ \A q \in DOMAIN req : q < r => req[q].pc # "idle"
    /\ IF SameChain(destinationChainId)
         THEN Respond(r, ErrorBody(400, "Cannot claim to Ethereum Sepolia"))
       ELSE IF Len(PositionKeys(events)) = 0
         THEN Respond(r, ErrorBody(400, "No rewards available"))
       ELSE /\ req' = [req EXCEPT ![r] =
                        [Idle EXCEPT !.pc = "balance", !.positions = events,
                                     !.now = now]]
            /\ UNCHANGED sent
    /\ body' = [body EXCEPT ![r] =
                  [address |-> address, amount |-> amount,
                   destinationChainId |-> destinationChainId]]
    /\ UNCHANGED <<events, claimed, claims, disk, now, treasuryBalance, allowance,
                   attested, submitted, burned, returned>>

\* the catch block of the handler: res.status(500).json({error})
Catch(r, message) == Respond(r, ErrorBody(500, message))

\* lines 299-307 without the comparison with pending
ClaimAmountUnchecked(amount, pending) == IF amount # NoAmount THEN amount ELSE pending

\* the claim amount of lines 299-307, or -1 when the request is rejected
ClaimAmount(amount, pending) ==
    IF amount # NoAmount
      THEN IF amount > pending THEN -1 ELSE amount
      ELSE pending

\* lines 292-327: getTreasuryBalance returns (or throws), calculateRewards
\* finishes with the ledger as it is now, the eligibility checks run, and
\* usdc.approve is called
ClaimValidate(r, balanceRead) ==
    /\ req[r].pc = "balance"
    /\ IF ~balanceRead THEN Catch(r, "balanceOf failed")
       ELSE LET rewards == calculateRewards(req[r].positions, req[r].now,
                                            treasuryBalance, claimed)
                i == FindReward(rewards, toLowerCase(body[r].address))
            IN IF i = 0 \/ rewards[i].pending = 0
                 THEN Respond(r, ErrorBody(400, "No rewards available"))
               ELSE IF ClaimAmount(body[r].amount, rewards[i].pending) = -1
                 THEN Respond(r, ErrorBody(400, "Claim amount exceeds available rewards"))
               ELSE /\ req' = [req EXCEPT ![r].pc = "approve",
                                          ![r].positions = << >>,
                                          ![r].now = 0,
                                          ![r].pending = rewards[i].pending,
                                          ![r].claimAmount =
                                              ClaimAmount(body[r].amount, rewards[i].pending)]
                    /\ UNCHANGED sent
    /\ UNCHANGED <<events, claimed, claims, disk, now, treasuryBalance, allowance,
                   body, attested, submitted, burned, returned>>

\* line 324 with the ledger debited as soon as the approval is submitted
ApproveSubmitDebitsEarly(r, ok) ==
    /\ req[r].pc = "approve"
    /\ IF ok THEN /\ submitted' = submitted \cup {<<r, "approve">>}
                  /\ req' = [req EXCEPT ![r].pc = "approveWait"]
                  /\ claimed' = LedgerAdd(claimed, toLowerCase(body[r].address),
                                          req[r].claimAmount)
                  /\ UNCHANGED sent
       ELSE /\ Catch(r, "approve failed")
            /\ UNCHANGED <<submitted, claimed>>
    /\ UNCHANGED <<events, claims, disk, now, treasuryBalance, allowance,
                   body, attested, burned, returned>>

\* line 324: usdc.approve resolves once the transaction is submitted, or throws
ApproveSubmit(r, ok) ==
    /\ req[r].pc = "approve"
    /\ IF ok THEN /\ submitted' = submitted \cup {<<r, "approve">>}
                  /\ req' = [req EXCEPT ![r].pc = "approveWait"]
                  /\ UNCHANGED sent
       ELSE /\ Catch(r, "approve failed")
            /\ UNCHANGED submitted
    /\ UNCHANGED <<events, claimed, claims, disk, now, treasuryBalance, allowance,
                   body, attested, burned, returned>>

\* lines 328-344: approveTx.wait() resolves with the allowance set (or throws),
\* then depositForBurn is called; reading .domain of a chain that
\* CCTP_CONTRACTS lacks throws a TypeError
ApproveMined(r, ok) ==
    /\ req[r].pc = "approveWait"
    /\ IF ~ok THEN /\ Catch(r, "approve reverted")
                   /\ UNCHANGED allowance
       ELSE /\ allowance' = req[r].claimAmount
            /\ IF body[r].destinationChainId \notin CCTP_CONTRACTS
                 THEN Catch(r, "Cannot read properties of undefined")
               ELSE /\ req' = [req EXCEPT ![r].pc = "burn"]
                    /\ UNCHANGED sent
    /\ UNCHANGED <<events, claimed, claims, disk, now, treasuryBalance,
                   body, attested, submitted, burned, returned>>

\* line 339: depositForBurn resolves once the transaction is submitted, or throws
BurnSubmit(r, ok) ==
    /\ req[r].pc = "burn"
    /\ IF ok THEN /\ submitted' = submitted \cup {<<r, "burn">>}
                  /\ req' = [req EXCEPT ![r].pc = "burnWait"]
                  /\ UNCHANGED sent
       ELSE /\ Catch(r, "depositForBurn failed")
            /\ UNCHANGED submitted
    /\ UNCHANGED <<events, claimed, claims, disk, now, treasuryBalance, allowance,
                   body, attested, burned, returned>>

\* TokenMessenger.depositForBurn on chain: it takes the amount from the
\* treasury against the allowance, or reverts
BurnSucceeds(amount) == amount > 0 /\ allowance >= amount /\ treasuryBalance >= amount

\* lines 345-386: burnTx.wait() resolves with the receipt (or throws on a
\* revert), the MessageSent log is looked up in the receipt, and the poll loop
\* starts
BurnMined(r, messageSent) ==
    /\ req[r].pc = "burnWait"
    /\ IF ~BurnSucceeds(req[r].claimAmount)
         THEN /\ Catch(r, "transaction execution reverted")
              /\ UNCHANGED <<treasuryBalance, allowance, burned>>
       ELSE /\ treasuryBalance' = treasuryBalance - req[r].claimAmount
            /\ allowance' = allowance - req[r].claimAmount
            /\ burned' = [burned EXCEPT ![r] = req[r].claimAmount]
            /\ IF ~messageSent
                 THEN Catch(r, "MessageSent event not found in transaction logs")
               ELSE /\ req' = [req EXCEPT ![r].pc = "poll", ![r].attemptCount = 0]
                    /\ UNCHANGED sent
    /\ UNCHANGED <<events, claimed, claims, disk, now, body, attested, submitted, returned>>

DestinationChain(destinationChainId) ==
    IF destinationChainId = BASE_SEPOLIA THEN "Base Sepolia" ELSE "Ethereum Sepolia"

\* a Claim record; a key the code leaves out of the object is "" or 0
ClaimRecord(r, status, attempts, attestation) ==
    [id |-> ClaimId(r), recipient |-> body[r].address, amount |-> req[r].claimAmount,
     destinationChainId |-> body[r].destinationChainId,
     destinationChain |-> DestinationChain(body[r].destinationChainId),
     status |-> status, attestationAttempts |-> attempts, attestation |-> attestation]

\* the timeout branch as the first agent had it: 500 'Attestation timeout',
\* no Claim record and no ledger update
TimeoutBranchDropsClaim(r, attempts, written) ==
    /\ UNCHANGED <<claims, claimed, disk>>
    /\ Respond(r, ErrorBody(500, "Attestation timeout"))

\* lines 408-443: no attestation after the loop
TimeoutBranch(r, attempts, written) ==
    /\ claims' = Append(claims, ClaimRecord(r, "pending_attestation", attempts, ""))
    /\ claimed' = LedgerAdd(claimed, toLowerCase(body[r].address), req[r].claimAmount)
    /\ disk' = saveData(written, events, claimed', claims')
    /\ IF written
         THEN Respond(r, ClaimBody(202, "pending_attestation", ClaimId(r),
                                   req[r].claimAmount, 0))
         ELSE Catch(r, "writeFileSync failed")

\* the attested branch debiting a claim that the timeout path had debited too
AttestedBranchDebitsTwice(r, written) ==
    /\ claims' = Append(claims, ClaimRecord(r, "attested", 0, "0xatt..."))
    /\ claimed' = LedgerAdd(LedgerAdd(claimed, toLowerCase(body[r].address),
                                      req[r].claimAmount),
                            toLowerCase(body[r].address), req[r].claimAmount)
    /\ disk' = saveData(written, events, claimed', claims')
    /\ Respond(r, ClaimBody(200, "attested", ClaimId(r), req[r].claimAmount,
                            req[r].pending - req[r].claimAmount))

\* the attested branch with the amount taken from the rewards as they are
\* when the attestation arrives, not from the claimAmount of line 301 or 306
AttestedBranchRecomputes(r, written) ==
    LET rewards == calculateRewards(events, now, treasuryBalance, claimed)
        i == FindReward(rewards, toLowerCase(body[r].address))
        amount == IF i = 0 THEN 0 ELSE rewards[i].pending
    IN /\ claims' = Append(claims, [ClaimRecord(r, "attested", 0, "0xatt...")
                                       EXCEPT !.amount = amount])
       /\ claimed' = LedgerAdd(claimed, toLowerCase(body[r].address), amount)
       /\ disk' = saveData(written, events, claimed', claims')
       /\ Respond(r, ClaimBody(200, "attested", ClaimId(r), amount, 0))

\* lines 445-483: the attestation was received
AttestedBranch(r, written) ==
    /\ claims' = Append(claims, ClaimRecord(r, "attested", 0, "0xatt..."))
    /\ claimed' = LedgerAdd(claimed, toLowerCase(body[r].address), req[r].claimAmount)
    /\ disk' = saveData(written, events, claimed', claims')
    /\ IF written
         THEN Respond(r, ClaimBody(200, "attested", ClaimId(r), req[r].claimAmount,
                                   req[r].pending - req[r].claimAmount))
         ELSE Catch(r, "writeFileSync failed")

\* what one axios.get of the attestation API does: a body whose status is
\* "complete", with the attestation or with none, or "pending_confirmations",
\* or an error
PollOutcomes == {"complete", "complete_without_attestation",
                 "pending_confirmations", "error"}

\* the loop test written i <= maxAttempts
LoopContinuesOffByOne(i) == i <= maxAttempts

\* the for loop's test i < maxAttempts after the i-th attempt
LoopContinues(i) == i < maxAttempts

\* the poll loop without the try/catch of lines 388-405: an error thrown by
\* axios.get reaches the catch of the route
PollAttemptErrorFails(r, outcome, written) ==
    /\ req[r].pc = "poll"
    /\ LET attempts == req[r].attemptCount + 1
       IN IF outcome = "complete"
            THEN /\ attested' = attested \cup {r}
                 /\ AttestedBranch(r, written)
          ELSE IF outcome = "error"
            THEN /\ Catch(r, "Request failed with status code 500")
                 /\ UNCHANGED <<claims, claimed, disk, attested>>
          ELSE IF outcome # "complete_without_attestation" /\ LoopContinues(attempts)
            THEN /\ req' = [req EXCEPT ![r].attemptCount = attempts]
                 /\ UNCHANGED <<claims, claimed, disk, sent, attested>>
          ELSE /\ TimeoutBranch(r, attempts, written)
               /\ UNCHANGED attested
    /\ UNCHANGED <<events, now, treasuryBalance, allowance, body, submitted, burned, returned>>

\* lines 384-406 and what follows the loop: one attempt of the poll loop
\* (attemptCount++, the sleep, the axios.get); on "complete" the loop breaks,
\* after the last attempt it ends, and the code runs on to the response:
\* the attested one if response.data.attestation is truthy, else the timeout one
PollAttempt(r, outcome, written) ==
    /\ req[r].pc = "poll"
    /\ LET attempts == req[r].attemptCount + 1
       IN IF outcome = "complete"
            THEN /\ attested' = attested \cup {r}
                 /\ AttestedBranch(r, written)
          ELSE IF outcome # "complete_without_attestation" /\ LoopContinues(attempts)
            THEN /\ req' = [req EXCEPT ![r].attemptCount = attempts]
                 /\ UNCHANGED <<claims, claimed, disk, sent, attested>>
          ELSE /\ TimeoutBranch(r, attempts, written)
               /\ UNCHANGED attested
    /\ UNCHANGED <<events, now, treasuryBalance, allowance, body, submitted, burned, returned>>


\* ------------------------------------------------------- read-only API
\* GET /api/claims/:claimId: what the handler answers
getClaim(list, claimId) ==
    LET hits == {i \in 1..Len(list) : list[i].id = claimId}
    IN IF hits = {} THEN [code |-> 404, body |-> "Claim not found"]
       ELSE [code |-> 200, body |-> list[CHOOSE i \in hits : \A j \in hits : i <= j]]

\* GET /api/rewards/:address with the balance read (or the read failing)
getRewards(address, balanceRead) ==
    LET a == toLowerCase(address)
        rewards == calculateRewards(events, now, treasuryBalance, claimed)
        i == FindReward(rewards, a)
    IN IF ~balanceRead /\ Len(PositionKeys(events)) > 0
         THEN [code |-> 500, address |-> "", pending |-> 0, claimed |-> 0]
       ELSE IF i = 0 THEN [code |-> 200, address |-> a, pending |-> 0, claimed |-> 0]
       ELSE [code |-> 200, address |-> rewards[i].provider,
             pending |-> rewards[i].pending, claimed |-> rewards[i].claimed]

\* the GET handlers answer from the state and assign nothing
GetClaim(claimId) ==
    /\ getClaim(claims, claimId).code \in {200, 404}
    /\ UNCHANGED vars

GetRewards(address, balanceRead) ==
    /\ getRewards(address, balanceRead).code \in {200, 500}
    /\ UNCHANGED vars

\* ------------------------------------------------------- specification
Next ==
    \/ Tick
    \/ \E type \in {"LiquidityAdded", "LiquidityRemoved"}, provider \in EventAddrs,
          timestamp \in 0..now, written \in BOOLEAN :
          \E liquidityDelta \in Deltas(type) :
             handleEvent(HookOf(provider), type, provider, liquidityDelta,
                         timestamp, written)
    \/ \E r \in DOMAIN req, address \in ReqAddrs, amount \in Amounts,
          destinationChainId \in DestChains :
          ClaimStart(r, address, amount, destinationChainId)
    \/ \E r \in DOMAIN req, balanceRead \in BOOLEAN : ClaimValidate(r, balanceRead)
    \/ \E r \in DOMAIN req, ok \in BOOLEAN : ApproveSubmit(r, ok)
    \/ \E r \in DOMAIN req, ok \in BOOLEAN : ApproveMined(r, ok)
    \/ \E r \in DOMAIN req, ok \in BOOLEAN : BurnSubmit(r, ok)
    \/ \E r \in DOMAIN req, messageSent \in BOOLEAN : BurnMined(r, messageSent)
    \/ \E r \in DOMAIN req, outcome \in PollOutcomes, written \in BOOLEAN :
          PollAttempt(r, outcome, written)
    \/ \E claimId \in Reqs : GetClaim(claimId)
    \/ \E address \in ReqAddrs, balanceRead \in BOOLEAN : GetRewards(address, balanceRead)

Spec == Init /\ [][Next]_vars

\* every await of the poll loop settles: the sleep ends and the attestation
\* call returns or fails
FairSpec ==
    Spec /\ \A r \in Reqs :
              WF_vars(\E outcome \in PollOutcomes, written \in BOOLEAN :
                         PollAttempt(r, outcome, written))

\* ------------------------------------------- calculateRewards on its own
MaxCalls == 2         \* calls of calculateRewards made in one run
CalcMaxTime == 2      \* clock values and block times range over 0..CalcMaxTime

\* the ledgers data.json holds at start: none, or one written by the agent
\* for a provider that claimed 1
CalcLedgers == {EmptyLedger, [k \in {"0xa1"} |-> 1]}

\* the providers of the events: 0xA1 also in lower case
CalcAddrs == EventAddrs \cup {"0xa1"}

\* loadData with a data.json that holds no events and one of the ledgers; the
\* clock and the treasury balance are whatever they are when the calls are made
CalcInit ==
    /\ events = << >>
    /\ claimed \in CalcLedgers
    /\ claims = << >>
    /\ disk = Document(<< >>, claimed, << >>)
    /\ now \in 0..CalcMaxTime
    /\ treasuryBalance \in 0..TreasuryFunds
    /\ allowance = 0
    /\ body = [r \in Reqs |-> NoBody]
    /\ req = [r \in Reqs |-> Idle]
    /\ attested = {}
    /\ sent = [r \in Reqs |-> << >>]
    /\ submitted = {}
    /\ burned = [r \in Reqs |-> 0]
    /\ returned = NoCall

\* a call that walks the log newest first by reversing data.events in place
EvaluateReversesLog ==
    /\ returned.calls < MaxCalls
    /\ returned' = [calls |-> returned.calls + 1,
                    rewards |-> calculateRewards(events, now, treasuryBalance, claimed)]
    /\ events' = [i \in 1..Len(events) |-> events[Len(events) + 1 - i]]
    /\ UNCHANGED <<claimed, claims, disk, now, treasuryBalance, allowance,
                   body, req, attested, sent, submitted, burned>>

\* a call of calculateRewards whose balance read succeeds: GET /api/treasury
\* and GET /api/rewards make it and assign nothing else
Evaluate ==
    /\ returned.calls < MaxCalls
    /\ returned' = [calls |-> returned.calls + 1,
                    rewards |-> calculateRewards(events, now, treasuryBalance, claimed)]
    /\ UNCHANGED <<events, claimed, claims, disk, now, treasuryBalance, allowance,
                   body, req, attested, sent, submitted, burned>>

\* the listener fills the log, with block times on either side of the agent's
\* clock; then calculateRewards is called, MaxCalls times
CalcNext ==
    \/ \E type \in {"LiquidityAdded", "LiquidityRemoved"}, provider \in CalcAddrs,
          timestamp \in 0..CalcMaxTime :
          \E liquidityDelta \in Deltas(type) :
             /\ returned = NoCall
             /\ handleEvent(HookOf(provider), type, provider, liquidityDelta,
                            timestamp, TRUE)
    \/ Evaluate

SpecCalc == CalcInit /\ [][CalcNext]_vars

\* ------------------------------------------------------------- restart
\* the process ends and is started again: line 87 loads data.json, and the
\* handlers that were running are gone, their requests unanswered
Restart ==
    /\ events' = loadData(disk).events
    /\ claimed' = loadData(disk).claimed
    /\ claims' = loadData(disk).claims
    /\ req' = [r \in DOMAIN req |->
                 IF req[r].pc \in {"idle", "done"} THEN req[r] ELSE Done]
    /\ UNCHANGED <<disk, now, treasuryBalance, allowance, body, attested, sent,
                   submitted, burned, returned>>

\* the agent with restarts, on a disk whose writes succeed
RestartNext ==
    \/ Tick
    \/ \E type \in {"LiquidityAdded", "LiquidityRemoved"}, provider \in EventAddrs,
          timestamp \in 0..now :
          \E liquidityDelta \in Deltas(type) :
             handleEvent(HookOf(provider), type, provider, liquidityDelta,
                         timestamp, TRUE)
    \/ \E r \in DOMAIN req, address \in ReqAddrs, amount \in Amounts,
          destinationChainId \in DestChains :
          ClaimStart(r, address, amount, destinationChainId)
    \/ \E r \in DOMAIN req, balanceRead \in BOOLEAN : ClaimValidate(r, balanceRead)
    \/ \E r \in DOMAIN req, ok \in BOOLEAN : ApproveSubmit(r, ok)
    \/ \E r \in DOMAIN req, ok \in BOOLEAN : ApproveMined(r, ok)
    \/ \E r \in DOMAIN req, ok \in BOOLEAN : BurnSubmit(r, ok)
    \/ \E r \in DOMAIN req, messageSent \in BOOLEAN : BurnMined(r, messageSent)
    \/ \E r \in DOMAIN req, outcome \in PollOutcomes : PollAttempt(r, outcome, TRUE)
    \/ Restart

SpecRestart == Init /\ [][RestartNext]_vars

\* ------------------------------------------------- two claims in flight
\* two POST /api/claim requests, made to an agent that has loaded a log of two
\* positions: 0xA1 with liquidity 1 and 0xB2 with liquidity 2, both added at
\* time 0, read at time 1
RaceReqs == {1, 2}

RaceLog ==
    <<[type |-> "LiquidityAdded", chain |-> HookOf("0xA1"), provider |-> "0xA1",
       liquidityDelta |-> 1, timestamp |-> 0],
      [type |-> "LiquidityAdded", chain |-> HookOf("0xB2"), provider |-> "0xB2",
       liquidityDelta |-> 2, timestamp |-> 0]>>

RaceInit ==
    /\ events = loadData(Document(RaceLog, EmptyLedger, << >>)).events
    /\ claimed = EmptyLedger
    /\ claims = << >>
    /\ disk = Document(RaceLog, EmptyLedger, << >>)
    /\ now = 1
    /\ treasuryBalance = TreasuryFunds
    /\ allowance = 0
    /\ body = [r \in RaceReqs |-> NoBody]
    /\ req = [r \in RaceReqs |-> Idle]
    /\ attested = {}
    /\ sent = [r \in RaceReqs |-> << >>]
    /\ submitted = {}
    /\ burned = [r \in RaceReqs |-> 0]
    /\ returned = NoCall

\* the requests name either provider, with a part of the reward or with none,
\* to Base Sepolia; the attestation API answers "complete" at the first poll
RaceNext ==
    \/ \E r \in DOMAIN req, address \in {"0xa1", "0xB2"}, amount \in {NoAmount, 1} :
          ClaimStart(r, address, amount, BASE_SEPOLIA)
    \/ \E r \in DOMAIN req, balanceRead \in BOOLEAN : ClaimValidate(r, balanceRead)
    \/ \E r \in DOMAIN req, ok \in BOOLEAN : ApproveSubmit(r, ok)
    \/ \E r \in DOMAIN req, ok \in BOOLEAN : ApproveMined(r, ok)
    \/ \E r \in DOMAIN req, ok \in BOOLEAN : BurnSubmit(r, ok)
    \/ \E r \in DOMAIN req, messageSent \in BOOLEAN : BurnMined(r, messageSent)
    \/ \E r \in DOMAIN req,
          outcome \in {"complete", "complete_without_attestation"} :
          PollAttempt(r, outcome, TRUE)

SpecRace == RaceInit /\ [][RaceNext]_vars

\* ------------------------------------------------- loading data.json
\* what the agent may find in data.json when it starts: nothing readable, a
\* document written by the first agent (no claims list), or one of its own
LoadedFiles ==
    {NoFile, BlankFile, TornFile,
     [events |-> RaceLog, claimed |-> [k \in {"0xb2"} |-> 1]],
     Document(RaceLog, [k \in {"0xb2"} |-> 1], << >>)}

LoadInit ==
    /\ disk \in LoadedFiles
    /\ events = loadData(disk).events
    /\ claimed = loadData(disk).claimed
    /\ claims = loadData(disk).claims
    /\ now = 0
    /\ treasuryBalance = TreasuryFunds
    /\ allowance = 0
    /\ body = [r \in Reqs |-> NoBody]
    /\ req = [r \in Reqs |-> Idle]
    /\ attested = {}
    /\ sent = [r \in Reqs |-> << >>]
    /\ submitted = {}
    /\ burned = [r \in Reqs |-> 0]
    /\ returned = NoCall

\* the process is killed inside the writeFileSync of a saveData() call, which
\* leaves data.json empty or cut short, and is started again (line 87)
KilledInSaveData(left) ==
    /\ disk' = left
    /\ events' = loadData(left).events
    /\ claimed' = loadData(left).claimed
    /\ claims' = loadData(left).claims
    /\ req' = [r \in DOMAIN req |->
                 IF req[r].pc \in {"idle", "done"} THEN req[r] ELSE Done]
    /\ UNCHANGED <<now, treasuryBalance, allowance, body, attested, sent,
                   submitted, burned, returned>>

\* the agent on whatever data.json it found; the attestation API answers
\* 'complete' at the first poll
LoadNext ==
    \/ Tick
    \/ \E type \in {"LiquidityAdded", "LiquidityRemoved"}, provider \in EventAddrs,
          timestamp \in 0..now :
          \E liquidityDelta \in Deltas(type) :
             handleEvent(HookOf(provider), type, provider, liquidityDelta,
                         timestamp, TRUE)
    \/ \E r \in DOMAIN req, address \in ReqAddrs, amount \in {NoAmount, 1} :
          ClaimStart(r, address, amount, BASE_SEPOLIA)
    \/ \E r \in DOMAIN req, balanceRead \in BOOLEAN : ClaimValidate(r, balanceRead)
    \/ \E r \in DOMAIN req, ok \in BOOLEAN : ApproveSubmit(r, ok)
    \/ \E r \in DOMAIN req, ok \in BOOLEAN : ApproveMined(r, ok)
    \/ \E r \in DOMAIN req, ok \in BOOLEAN : BurnSubmit(r, ok)
    \/ \E r \in DOMAIN req, messageSent \in BOOLEAN : BurnMined(r, messageSent)
    \/ \E r \in DOMAIN req,
          outcome \in {"complete", "complete_without_attestation"} :
          PollAttempt(r, outcome, TRUE)
    \/ Restart
    \/ \E left \in {BlankFile, TornFile} : KilledInSaveData(left)

SpecLoad == LoadInit /\ [][LoadNext]_vars

\* ------------------------------- the first agent (src/unnamed/part_001)
\* Its POST /api/claim takes no amount, claims the whole pending reward, and
\* after the attestation calls receiveMessage on the destination itself.  Its
\* approve and depositForBurn calls (lines 190-203) are those of the later
\* agent, with userReward.pending as the amount and no MessageSent lookup.

\* line 235: data.claimed[addressLower] = userReward.pending
LedgerSet(ledger, a, value) ==
    [k \in DOMAIN ledger \cup {a} |-> IF k = a THEN value ELSE ledger[k]]

\* its saveData: the document has events and claimed, no claims list
saveDataMint(ok, ev, led) == IF ok THEN [events |-> ev, claimed |-> led] ELSE disk

\* the data.json it starts on: the two positions of RaceLog or the second
\* alone, and a ledger in which 0xb2 has claimed nothing, 1 or 2 before
MintFiles ==
    {[events |-> ev, claimed |-> led] :
        ev \in {RaceLog, <<RaceLog[2]>>},
        led \in {EmptyLedger, [k \in {"0xb2"} |-> 1], [k \in {"0xb2"} |-> 2]}}

MintInit ==
    /\ disk \in MintFiles
    /\ events = disk.events
    /\ claimed = disk.claimed
    /\ claims = << >>
    /\ now = 1
    /\ treasuryBalance = TreasuryFunds
    /\ allowance = 0
    /\ body = [r \in Reqs |-> NoBody]
    /\ req = [r \in Reqs |-> Idle]
    /\ attested = {}
    /\ sent = [r \in Reqs |-> << >>]
    /\ submitted = {}
    /\ burned = [r \in Reqs |-> 0]
    /\ returned = NoCall

\* lines 179-183, up to the await inside calculateRewards
MintClaimStart(r, address, destinationChainId) ==
    /\ req[r].pc = "idle"
    /\ \A q \in DOMAIN req : q < r => req[q].pc # "idle"
    /\ IF Len(PositionKeys(events)) = 0
         THEN Respond(r, ErrorBody(400, "No rewards"))
       ELSE /\ req' = [req EXCEPT ![r] =
                        [Idle EXCEPT !.pc = "balance", !.positions = events,
                                     !.now = now]]
            /\ UNCHANGED sent
    /\ body' = [body EXCEPT ![r] =
                  [address |-> address, amount |-> NoAmount,
                   destinationChainId |-> destinationChainId]]
    /\ UNCHANGED <<events, claimed, claims, disk, now, treasuryBalance, allowance,
                   attested, submitted, burned, returned>>

\* lines 183-191: calculateRewards finishes, the test of line 185, and
\* usdc.approve is called with userReward.pending
MintClaimValidate(r, balanceRead) ==
    /\ req[r].pc = "balance"
    /\ IF ~balanceRead THEN Catch(r, "balanceOf failed")
       ELSE LET rewards == calculateRewards(req[r].positions, req[r].now,
                                            treasuryBalance, claimed)
                i == FindReward(rewards, toLowerCase(body[r].address))
            IN IF i = 0 \/ rewards[i].pending = 0
                 THEN Respond(r, ErrorBody(400, "No rewards"))
               ELSE /\ req' = [req EXCEPT ![r].pc = "approve",
                                          ![r].positions = << >>,
                                          ![r].now = 0,
                                          ![r].pending = rewards[i].pending,
                                          ![r].claimAmount = rewards[i].pending]
                    /\ UNCHANGED sent
    /\ UNCHANGED <<events, claimed, claims, disk, now, treasuryBalance, allowance,
                   body, attested, submitted, burned, returned>>

\* lines 209-219: one attempt of the poll loop; 'complete' with an
\* attestation goes on to the mint, and a loop that ends without one answers
\* 500 'Attestation timeout'
MintPollAttempt(r, outcome) ==
    /\ req[r].pc = "poll"
    /\ LET attempts == req[r].attemptCount + 1
       IN IF outcome = "complete"
            THEN /\ attested' = attested \cup {r}
                 /\ req' = [req EXCEPT ![r].pc = "mint"]
                 /\ UNCHANGED sent
          ELSE IF outcome # "complete_without_attestation" /\ LoopContinues(attempts)
            THEN /\ req' = [req EXCEPT ![r].attemptCount = attempts]
                 /\ UNCHANGED <<sent, attested>>
          ELSE /\ Respond(r, ErrorBody(500, "Attestation timeout"))
               /\ UNCHANGED attested
    /\ UNCHANGED <<events, claimed, claims, disk, now, treasuryBalance, allowance,
                   body, submitted, burned, returned>>

\* lines 222-231: receiveMessage on the destination resolves once the
\* transaction is submitted, or throws
MintSubmit(r, ok) ==
    /\ req[r].pc = "mint"
    /\ IF ok THEN /\ submitted' = submitted \cup {<<r, "mint">>}
                  /\ req' = [req EXCEPT ![r].pc = "mintWait"]
                  /\ UNCHANGED sent
       ELSE /\ Catch(r, "receiveMessage failed")
            /\ UNCHANGED submitted
    /\ UNCHANGED <<events, claimed, claims, disk, now, treasuryBalance, allowance,
                   body, attested, burned, returned>>

\* lines 232-242: mintTx.wait() resolves (or throws on a revert), the ledger
\* entry is set to userReward.pending, saveData, and the response
MintMined(r, ok, written) ==
    /\ req[r].pc = "mintWait"
    /\ IF ~ok THEN /\ Catch(r, "transaction execution reverted")
                   /\ UNCHANGED <<claimed, disk, submitted>>
       ELSE /\ submitted' = submitted \cup {<<r, "minted">>}
            /\ claimed' = LedgerSet(claimed, toLowerCase(body[r].address),
                                    req[r].pending)
            /\ disk' = saveDataMint(written, events, claimed')
            /\ IF written
                 THEN Respond(r, ClaimBody(200, "", 0, req[r].pending, 0))
                 ELSE Catch(r, "writeFileSync failed")
    /\ UNCHANGED <<events, claims, now, treasuryBalance, allowance, body,
                   attested, burned, returned>>

MintNext ==
    \/ \E r \in DOMAIN req, address \in ReqAddrs, destinationChainId \in DestChains :
          MintClaimStart(r, address, destinationChainId)
    \/ \E r \in DOMAIN req, balanceRead \in BOOLEAN : MintClaimValidate(r, balanceRead)
    \/ \E r \in DOMAIN req, ok \in BOOLEAN : ApproveSubmit(r, ok)
    \/ \E r \in DOMAIN req, ok \in BOOLEAN : ApproveMined(r, ok)
    \/ \E r \in DOMAIN req, ok \in BOOLEAN : BurnSubmit(r, ok)
    \/ \E r \in DOMAIN req : BurnMined(r, TRUE)
    \/ \E r \in DOMAIN req, outcome \in PollOutcomes : MintPollAttempt(r, outcome)
    \/ \E r \in DOMAIN req, ok \in BOOLEAN : MintSubmit(r, ok)
    \/ \E r \in DOMAIN req, ok \in BOOLEAN, written \in BOOLEAN : MintMined(r, ok, written)

SpecMint == MintInit /\ [][MintNext]_vars


\* ================================================================ claims
LedgerKeys == {toLowerCase(a) : a \in ReqAddrs \cup EventAddrs}

\* the Claim records of request r
RecordsOf(list, r) == {i \in 1..Len(list) : list[i].id = ClaimId(r)}

\* the amounts of the Claim records whose recipient is a
RecordedFor(list, a) ==
    LET mine == {i \in 1..Len(list) : toLowerCase(list[i].recipient) = a}
    IN SumOver(mine, [i \in mine |-> list[i].amount])

\* the amounts burned by the finished requests of provider a
BurnedFor(a) ==
    LET mine == {q \in DOMAIN req :
                    req[q].pc = "done" /\ toLowerCase(body[q].address) = a}
    IN SumOver(mine, [q \in mine |-> burned[q]])

\* C1: when the poll loop of a claim whose burn was confirmed ends without an
\* attestation, that step adds exactly the claim amount to
\* claimed[lowercase(address)] and stores a Claim record with the claim's id
\* and status pending_attestation, which GET /api/claims/:claimId returns.
C1_TimeoutDebitsAndQueues ==
    [][\A r \in DOMAIN req :
         (req[r].pc = "poll" /\ req'[r].pc = "done" /\ r \notin attested'
            /\ burned[r] > 0) =>
           LET a == toLowerCase(body[r].address)
               answer == getClaim(claims', ClaimId(r))
           IN /\ req[r].claimAmount = burned[r]
              /\ ClaimedOf(claimed', a) = ClaimedOf(claimed, a) + req[r].claimAmount
              /\ \A k \in LedgerKeys \ {a} : ClaimedOf(claimed', k) = ClaimedOf(claimed, k)
              /\ answer.code = 200
              /\ answer.body.id = ClaimId(r)
              /\ answer.body.status = "pending_attestation"
              /\ answer.body.amount = req[r].claimAmount
              /\ Cardinality(RecordsOf(claims', r)) = 1]_vars

C1_Witness ==
    \E r \in DOMAIN req :
       /\ req[r].pc = "done" /\ burned[r] > 0 /\ r \notin attested
       /\ getClaim(claims, ClaimId(r)).code = 200
       /\ getClaim(claims, ClaimId(r)).body.status = "pending_attestation"
       /\ getClaim(claims, ClaimId(r)).body.attestationAttempts = maxAttempts
       /\ ClaimedOf(claimed, toLowerCase(body[r].address)) = burned[r]
       /\ Len(sent[r]) = 1 /\ sent[r][1].code = 202

\* C2: a claim that was attested before the ceiling has exactly one Claim
\* record, with status attested and the burned amount, and the ledger holds
\* for every provider the sum of the recorded claim amounts: each claim was
\* debited once.
C2_AttestedDebitedOnce ==
    \A r \in attested :
       /\ Cardinality(RecordsOf(claims, r)) = 1
       /\ \A i \in RecordsOf(claims, r) :
             /\ claims[i].status = "attested"
             /\ claims[i].amount = burned[r]
             /\ toLowerCase(claims[i].recipient) = toLowerCase(body[r].address)
       /\ \A k \in LedgerKeys : ClaimedOf(claimed, k) = RecordedFor(claims, k)

C2_Witness ==
    \E r \in attested :
       /\ req[r].pc = "done" /\ burned[r] > 0
       /\ Len(sent[r]) = 1 /\ sent[r][1].code = 200
       /\ ClaimedOf(claimed, toLowerCase(body[r].address)) = burned[r]
       /\ getClaim(claims, ClaimId(r)).body.status = "attested"

\* C3: a claim that failed after its burn was confirmed (other than by the
\* attestation timeout) has still been debited in the ledger and has a Claim
\* record.
C3_BurnedClaimRecorded ==
    \A r \in DOMAIN req :
       (req[r].pc = "done" /\ burned[r] > 0) =>
          /\ ClaimedOf(claimed, toLowerCase(body[r].address))
                = BurnedFor(toLowerCase(body[r].address))
          /\ \E i \in RecordsOf(claims, r) : claims[i].amount = burned[r]


\* the pre-burn positions of the handler
PreBurn == {"balance", "approve", "approveWait", "burn", "burnWait"}

TotalBurned == SumOver(DOMAIN burned, burned)

\* the pending reward the validation of request r computes (0 for a provider
\* that calculateRewards does not return)
PendingAtValidation(r) ==
    LET rewards == calculateRewards(req[r].positions, req[r].now,
                                    treasuryBalance, claimed)
        i == FindReward(rewards, toLowerCase(body[r].address))
    IN IF i = 0 THEN 0 ELSE rewards[i].pending

\* C4: a request that ends before its burn is confirmed (the reward
\* computation, the treasury read, the approve or its confirmation, the burn
\* submission or a reverted burn failed) ends with one error response; that
\* step leaves the ledger, the claims list, the file and the treasury balance
\* unchanged, no debit exists without a Claim record, the treasury holds its
\* funds minus the confirmed burns, and calculateRewards returns what it
\* returned before the step, so a retry meets the same eligibility.
C4_PreBurnFailureChangesNothing ==
    [][\A r \in DOMAIN req :
         (req[r].pc \in PreBurn /\ req'[r].pc = "done" /\ burned'[r] = 0) =>
           /\ Len(sent'[r]) = 1
           /\ sent'[r][1].code \in {400, 500}
           /\ sent'[r][1].error # ""
           /\ claimed' = claimed /\ claims' = claims /\ disk' = disk
           /\ treasuryBalance' = treasuryBalance
           /\ RecordsOf(claims', r) = {}
           /\ \A k \in LedgerKeys : ClaimedOf(claimed', k) = RecordedFor(claims', k)
           /\ treasuryBalance' = TreasuryFunds - TotalBurned'
           /\ calculateRewards(events', now', treasuryBalance', claimed')
                = calculateRewards(events, now, treasuryBalance, claimed)]_vars

C4_Witness ==
    \E r \in DOMAIN req :
       /\ req[r].pc = "done" /\ burned[r] = 0
       /\ <<r, "approve">> \in submitted
       /\ Len(sent[r]) = 1 /\ sent[r][1].code = 500
       /\ claimed = EmptyLedger /\ claims = << >>
       /\ treasuryBalance = TreasuryFunds

\* C5: when the validation computes the rewards and the amount given in the
\* request exceeds the provider's pending reward, the request ends in that
\* step with a 400 response; the ledger, the claims list and the chain state
\* are unchanged and the request has submitted neither approve nor burn.
C5_ExcessAmountRejected ==
    [][\A r \in DOMAIN req :
         (/\ req[r].pc = "balance" /\ req'[r].pc # "balance"
          /\ body[r].amount # NoAmount
          /\ body[r].amount > PendingAtValidation(r)
          /\ sent'[r] # <<ErrorBody(500, "balanceOf failed")>>) =>
           /\ req'[r].pc = "done"
           /\ Len(sent'[r]) = 1
           /\ sent'[r][1].code = 400
           /\ UNCHANGED <<events, claimed, claims, disk, treasuryBalance,
                          allowance, submitted, burned>>
           /\ \A tx \in submitted' : tx[1] # r]_vars

C5_Witness ==
    \E r \in DOMAIN req :
       /\ req[r].pc = "done"
       /\ body[r].amount # NoAmount
       /\ sent[r] = <<ErrorBody(400, "Claim amount exceeds available rewards")>>
       /\ submitted = {} /\ claimed = EmptyLedger /\ claims = << >>

\* a request ends with a 400 response in a step that changes nothing else
Rejected(r) ==
    /\ req'[r].pc = "done"
    /\ Len(sent'[r]) = 1
    /\ sent'[r][1].code = 400
    /\ UNCHANGED <<events, claimed, claims, disk, treasuryBalance, allowance,
                   submitted, burned>>
    /\ \A tx \in submitted' : tx[1] # r

\* C6: a request whose destination is Ethereum Sepolia (11155111), or whose
\* provider calculateRewards does not return, or whose computed pending
\* reward is 0, ends with a 400 response in a step that changes neither the
\* ledger, the claims list, the file nor the chain state, and submits nothing.
C6_IneligibleRejected ==
    [][\A r \in DOMAIN req :
         /\ (/\ req[r].pc = "idle" /\ req'[r].pc # "idle"
             /\ \/ body'[r].destinationChainId = SEPOLIA
                \/ Len(PositionKeys(events)) = 0) => Rejected(r)
         /\ (/\ req[r].pc = "balance" /\ req'[r].pc # "balance"
             /\ PendingAtValidation(r) = 0
             /\ sent'[r] # <<ErrorBody(500, "balanceOf failed")>>) => Rejected(r)]_vars

C6_Witness ==
    \E r \in DOMAIN req :
       /\ req[r].pc = "done"
       /\ body[r].destinationChainId = SEPOLIA
       /\ Len(PositionKeys(events)) > 0
       /\ sent[r] = <<ErrorBody(400, "Cannot claim to Ethereum Sepolia")>>
       /\ submitted = {} /\ claimed = EmptyLedger /\ claims = << >>


\* the evaluations of calculateRewards a state holds: one on the current log
\* and clock (GET /api/rewards, GET /api/treasury), and one per claim request
\* that awaits the treasury balance, on the positions and clock it read
Evaluations ==
    {<<events, now>>}
      \cup {<<req[r].positions, req[r].now>> : r \in {q \in DOMAIN req : req[q].pc = "balance"}}

SumPending(rewards) ==
    SumOver(1..Len(rewards), [n \in 1..Len(rewards) |-> rewards[n].pending])

SumClaimed(rewards) ==
    SumOver(1..Len(rewards), [n \in 1..Len(rewards) |-> rewards[n].claimed])

\* no position has a negative liquidity-time
NonNegativeTimes(ev, t) ==
    \A n \in 1..Len(PositionKeys(ev)) : LiquidityTime(ev, PositionKeys(ev)[n], t) >= 0

C8_LedgerMonotone ==
    [][/\ \A k \in LedgerKeys : ClaimedOf(claimed', k) >= ClaimedOf(claimed, k)
       /\ DOMAIN claimed \subseteq DOMAIN claimed'
       /\ claimed' # claimed =>
            /\ events' = events
            /\ \E r \in DOMAIN req :
                  /\ req[r].pc = "poll" /\ req'[r].pc = "done"
                  /\ claims' = Append(claims, claims'[Len(claims')])
                  /\ claims'[Len(claims')].id = ClaimId(r)
                  /\ claims'[Len(claims')].status \in {"attested", "pending_attestation"}
                  /\ \A k \in LedgerKeys \ {toLowerCase(body[r].address)} :
                        ClaimedOf(claimed', k) = ClaimedOf(claimed, k)]_vars

C8_Witness ==
    /\ Len(events) = MaxEvents
    /\ \E k \in LedgerKeys : ClaimedOf(claimed, k) > 0
    /\ \E i \in 1..Len(claims) : claims[i].status = "pending_attestation"

HasRecord(r, status) == \E i \in RecordsOf(claims, r) : claims[i].status = status

\* C9 as stated: every request gets exactly one response, 202 exactly when a
\* pending_attestation record was stored for it, 200 exactly when an attested
\* record was stored for it, and an error response exactly when neither was.
C9_ResponseAgreesWithStore ==
    \A r \in DOMAIN req :
       /\ Len(sent[r]) <= 1
       /\ Len(sent[r]) = 1 <=> req[r].pc = "done"
       /\ req[r].pc = "done" =>
            /\ sent[r][1].code = 202 <=> HasRecord(r, "pending_attestation")
            /\ sent[r][1].code = 200 <=> HasRecord(r, "attested")
            /\ sent[r][1].code \in {400, 500} <=> RecordsOf(claims, r) = {}

\* C10: a claim makes at most 60 poll attempts, and under FairSpec every claim
\* that reaches the poll loop ends with a Claim record of status attested or
\* pending_attestation.
C10_PollingBounded ==
    /\ [](\A r \in DOMAIN req :
            /\ req[r].attemptCount < maxAttempts
            /\ \A i \in RecordsOf(claims, r) :
                  claims[i].attestationAttempts <= maxAttempts)
    /\ \A r \in Reqs :
          (req[r].pc = "poll") ~>
             (req[r].pc = "done"
                /\ (HasRecord(r, "attested") \/ HasRecord(r, "pending_attestation")))

C10_Witness ==
    \E r \in DOMAIN req : req[r].pc = "poll" /\ req[r].attemptCount = maxAttempts - 1


\* the providers of the Added events of a log, by lowercased address
AddedProviders(ev) ==
    {toLowerCase(ev[i].provider) : i \in {j \in 1..Len(ev) : ev[j].type = "LiquidityAdded"}}

\* C11: a call of calculateRewards returns the empty list when the event log
\* is empty and whenever the liquidity-times of the positions sum to zero, and
\* it never throws the RangeError of a division by 0n: a call that returns
\* rewards had a non-zero total liquidity-time.
C11_EmptyWithoutLiquidityTime ==
    returned.calls > 0 =>
       /\ returned.rewards # RangeError
       /\ Len(events) = 0 => returned.rewards = << >>
       /\ AddedProviders(events) = {} => returned.rewards = << >>
       /\ TotalLiquidityTime(events, now) = 0 => returned.rewards = << >>
       /\ returned.rewards # << >> => TotalLiquidityTime(events, now) # 0

C11_Witness ==
    /\ returned.calls > 0
    /\ returned.rewards = << >>
    /\ Len(PositionKeys(events)) = 2
    /\ TotalLiquidityTime(events, now) = 0
    /\ \E n \in 1..2 : LiquidityTime(events, PositionKeys(events)[n], now) # 0

C13_SoleProviderGetsAll ==
    (/\ returned.calls > 0
     /\ Cardinality(AddedProviders(events)) = 1
     /\ \A k \in AddedProviders(events) :
           /\ Liquidity(events, k) > 0
           /\ now - FirstAdded(events, k).timestamp > 0
           /\ ClaimedOf(claimed, k) = 0) =>
       /\ Len(returned.rewards) = 1
       /\ returned.rewards[1].pending = treasuryBalance
       /\ returned.rewards[1].total = treasuryBalance

C13_Witness ==
    /\ returned.calls > 0
    /\ Len(events) = 2
    /\ Cardinality(AddedProviders(events)) = 1
    /\ \E i \in 1..2 : events[i].type = "LiquidityRemoved"
                         /\ toLowerCase(events[i].provider) \notin AddedProviders(events)
    /\ treasuryBalance = TreasuryFunds
    /\ Len(returned.rewards) = 1
    /\ returned.rewards[1].pending = TreasuryFunds

\* the total rewards of a returned list, summed
SumTotal(rewards) ==
    SumOver(1..Len(rewards), [n \in 1..Len(rewards) |-> rewards[n].total])

\* C14: when no position has a negative liquidity-time, every total a call
\* of calculateRewards returns is floor(liquidityTime * B / totalLiquidityTime),
\* the totals sum to at most B, B minus that sum is less than the number of
\* positions, and positions with equal liquidityTime get equal totals.
C14_FloorShares ==
    (/\ returned.calls > 0
     /\ returned.rewards # << >>
     /\ NonNegativeTimes(events, now)) =>
       LET keys == PositionKeys(events)
           T == TotalLiquidityTime(events, now)
           B == treasuryBalance
           LT(n) == LiquidityTime(events, keys[n], now)
           rewards == returned.rewards
       IN /\ Len(rewards) = Len(keys)
          /\ \A n \in 1..Len(keys) :
                /\ rewards[n].total * T <= LT(n) * B
                /\ LT(n) * B < (rewards[n].total + 1) * T
          /\ SumTotal(rewards) <= B
          /\ B - SumTotal(rewards) < Len(keys)
          /\ \A n, m \in 1..Len(keys) :
                LT(n) = LT(m) => rewards[n].total = rewards[m].total

C14_Witness ==
    /\ returned.calls > 0
    /\ Len(returned.rewards) = 2
    /\ treasuryBalance = TreasuryFunds
    /\ returned.rewards[1].total = 1
    /\ returned.rewards[2].total = 1
    /\ LiquidityTime(events, PositionKeys(events)[1], now)
         = LiquidityTime(events, PositionKeys(events)[2], now)


\* C15: every step that changes the event log is a listener callback that
\* appends exactly one event at the end and leaves the events before it as
\* they were; the steps of a claim request, the clock and the GET handlers
\* leave the log unchanged.
C15_LogAppendOnly ==
    [][events' # events =>
         /\ Len(events') = Len(events) + 1
         /\ SubSeq(events', 1, Len(events)) = events
         /\ UNCHANGED <<claimed, claims, req, sent, treasuryBalance, burned>>]_vars

C15_Witness ==
    /\ Len(events) = MaxEvents
    /\ events[1].provider # events[2].provider
    /\ events[1].timestamp > events[2].timestamp
    /\ \E r \in DOMAIN req : req[r].pc = "done" /\ RecordsOf(claims, r) # {}


\* the positions of the handler after the eligibility checks of lines 295-307
PastEligibility == {"approve", "approveWait", "burn", "burnWait", "poll"}

\* C16: every claim request that has passed the eligibility checks, whether
\* its approve, burn or polling is in progress or it has ended with a failure
\* after them, has a Claim record that GET /api/claims/:claimId returns for
\* its id.
C16_RecordFromEligibility ==
    \A r \in DOMAIN req :
       (\/ req[r].pc \in PastEligibility
        \/ /\ req[r].pc = "done"
           /\ \E tx \in submitted : tx[1] = r) =>
          getClaim(claims, ClaimId(r)).code = 200

\* once stored, a Claim record is neither removed nor modified
RecordsKept ==
    [][/\ Len(claims') >= Len(claims)
       /\ SubSeq(claims', 1, Len(claims)) = claims]_vars


\* C17: while a claim request is past its eligibility checks, its claimAmount
\* stays what the validation fixed; a listener callback that runs meanwhile
\* appends its event and touches neither the request nor the ledger; and the
\* step that ends the polling debits the ledger by exactly that claimAmount,
\* records it, and leaves the log with every appended event in it.
C17_AppendsDoNotDisturbClaim ==
    [][\A r \in DOMAIN req :
         req[r].pc \in PastEligibility =>
           /\ req'[r].pc \in PastEligibility => req'[r].claimAmount = req[r].claimAmount
           /\ events' # events =>
                /\ Len(events') = Len(events) + 1
                /\ SubSeq(events', 1, Len(events)) = events
                /\ UNCHANGED <<req, claimed, claims, burned, treasuryBalance>>
           /\ (req[r].pc = "poll" /\ req'[r].pc = "done") =>
                LET a == toLowerCase(body[r].address)
                IN /\ events' = events
                   /\ req[r].claimAmount = burned[r]
                   /\ ClaimedOf(claimed', a) = ClaimedOf(claimed, a) + req[r].claimAmount
                   /\ Len(claims') = Len(claims) + 1
                   /\ claims'[Len(claims')].amount = req[r].claimAmount]_vars

\* a claim of the whole treasury, which only a sole holder is granted, is
\* recorded and debited, and the log holds a second provider's position with
\* time held: its event was appended after the request had read the log
C17_Witness ==
    \E r \in DOMAIN req :
       /\ req[r].pc = "done"
       /\ burned[r] = TreasuryFunds
       /\ RecordsOf(claims, r) # {}
       /\ ClaimedOf(claimed, toLowerCase(body[r].address)) = TreasuryFunds
       /\ Len(PositionKeys(events)) = 2
       /\ \A n \in 1..2 : LiquidityTime(events, PositionKeys(events)[n], now) > 0


QueryAddrs == {"0xa1", "0xA1", "0xb2", "0xB2", "0xC3"}

\* entries of the computed rewards whose provider is the address, whatever
\* the letter case of either
EntriesFor(rewards, address) ==
    {n \in 1..Len(rewards) :
        toLowerCase(rewards[n].provider) = toLowerCase(address)}

\* C19: GET /api/rewards/:address, when the rewards are computed, answers 200
\* with pending 0 and claimed 0 for an address that has no entry in them, and
\* with the pending and claimed of the provider's one entry for an address that
\* has, whatever the letter case of the address in the path or in the events.
C19_RewardsByAddress ==
    LET rewards == calculateRewards(events, now, treasuryBalance, claimed)
    IN \A address \in QueryAddrs :
          LET res == getRewards(address, TRUE)
              entries == EntriesFor(rewards, address)
          IN /\ res.code = 200
             /\ entries = {} =>
                   /\ res.address = toLowerCase(address)
                   /\ res.pending = 0 /\ res.claimed = 0
             /\ entries # {} =>
                   /\ Cardinality(entries) = 1
                   /\ \A n \in entries :
                         /\ res.address = rewards[n].provider
                         /\ res.pending = rewards[n].pending
                         /\ res.claimed = rewards[n].claimed

\* the log spells one provider in two ways; a request in either spelling gets
\* that provider's pending reward, and an unknown address gets zeros
C19_Witness ==
    /\ \E i, j \in 1..Len(events) :
          events[i].provider = "0xA1" /\ events[j].provider = "0xa1"
    /\ getRewards("0xA1", TRUE).pending > 0
    /\ getRewards("0xa1", TRUE) = getRewards("0xA1", TRUE)
    /\ getRewards("0xC3", TRUE).pending = 0
    /\ Len(calculateRewards(events, now, treasuryBalance, claimed)) > 0


\* the amount of the Claim record of request r (0 when it has none)
RecordedAmount(r) ==
    IF RecordsOf(claims, r) = {} THEN 0
    ELSE claims[CHOOSE i \in RecordsOf(claims, r) : TRUE].amount

\* the 200 responses that request r got
Attested200(r) == {i \in 1..Len(sent[r]) : sent[r][i].code = 200}

\* C20: nothing orders the claims of one provider: of two requests in flight,
\* each that was validated is debited by its own amount when its polling ends,
\* whatever the other did to the ledger in between, so that the ledger entry
\* of a provider is the sum of the amounts of all its recorded claims, each of
\* them burned.
C20_BothClaimsDebited ==
    /\ \A r \in DOMAIN req :
          RecordsOf(claims, r) # {} =>
             /\ Cardinality(RecordsOf(claims, r)) = 1
             /\ RecordedAmount(r) > 0
             /\ burned[r] = RecordedAmount(r)
    /\ \A r1, r2 \in DOMAIN req :
          /\ r1 # r2
          /\ RecordsOf(claims, r1) # {} /\ RecordsOf(claims, r2) # {}
          /\ toLowerCase(body[r1].address) = toLowerCase(body[r2].address)
          => ClaimedOf(claimed, toLowerCase(body[r1].address))
                = RecordedAmount(r1) + RecordedAmount(r2)

\* both requests of one provider were answered 200 with the same pending
\* (amount + remaining), both amounts were burned, and the ledger holds their
\* sum, which is more than that pending
C20_Witness ==
    \E r1, r2 \in DOMAIN req :
       /\ r1 # r2
       /\ toLowerCase(body[r1].address) = toLowerCase(body[r2].address)
       /\ Attested200(r1) # {} /\ Attested200(r2) # {}
       /\ \A i \in Attested200(r1), j \in Attested200(r2) :
             /\ sent[r1][i].amount + sent[r1][i].remaining
                   = sent[r2][j].amount + sent[r2][j].remaining
             /\ burned[r1] = sent[r1][i].amount
             /\ burned[r2] = sent[r2][j].amount
             /\ ClaimedOf(claimed, toLowerCase(body[r1].address))
                   = sent[r1][i].amount + sent[r2][j].amount
             /\ ClaimedOf(claimed, toLowerCase(body[r1].address))
                   > sent[r1][i].amount + sent[r1][i].remaining


\* C21: every step that submits the burn of a claim is taken with the
\* allowance of the treasury to the burn contract at least that claim's amount.
C21_AllowanceCoversBurn ==
    [][\A r \in DOMAIN req :
          (req[r].pc = "burn" /\ req'[r].pc = "burnWait")
             => allowance >= req[r].claimAmount]_vars


\* C22: the anchor of every position (lastUpdate, set at lines 106-111) is the
\* smallest timestamp among the provider's Added events, whatever the order in
\* which the events arrived in the log.
C22_AnchorIsEarliestAdded ==
    \A k \in AddedProviders(events) :
       \A i \in 1..Len(events) :
          (IsAdded(events[i]) /\ toLowerCase(events[i].provider) = k)
             => FirstAdded(events, k).timestamp <= events[i].timestamp

\* once a provider has a position, no later event changes its anchor
AnchorKept ==
    [][\A k \in AddedProviders(events) :
          /\ k \in AddedProviders(events')
          /\ FirstAdded(events', k).timestamp = FirstAdded(events, k).timestamp]_vars


\* line 125: timeHeld of the position of key k at clock t
TimeHeld(ev, k, t) == t - FirstAdded(ev, k).timestamp

\* C23: in every call of calculateRewards, timeHeld = now - lastUpdate is
\* non-negative for every position, also when the log holds an Added event
\* stamped later than the clock.
C23_TimeHeldNonNegative ==
    returned.calls > 0 =>
       \A n \in 1..Len(PositionKeys(events)) :
          TimeHeld(events, PositionKeys(events)[n], now) >= 0


\* C24: every total, pending and claimed that a call of calculateRewards
\* returns is non-negative, and every total and pending is at most the
\* treasury balance read, for every event log.
C24_AmountsWithinBalance ==
    returned.calls > 0 =>
       \A n \in 1..Len(returned.rewards) :
          /\ returned.rewards[n].total >= 0
          /\ returned.rewards[n].pending >= 0
          /\ returned.rewards[n].claimed >= 0
          /\ returned.rewards[n].total <= treasuryBalance
          /\ returned.rewards[n].pending <= treasuryBalance

\* with no negative liquidity-time the amounts are within the bounds
AmountsWithinBalanceInOrder ==
    (returned.calls > 0 /\ NonNegativeTimes(events, now)) =>
       \A n \in 1..Len(returned.rewards) :
          /\ returned.rewards[n].total >= 0
          /\ returned.rewards[n].pending >= 0
          /\ returned.rewards[n].claimed >= 0
          /\ returned.rewards[n].total <= treasuryBalance
          /\ returned.rewards[n].pending <= treasuryBalance


\* a log with its LiquidityRemoved events deleted
WithoutRemoved(ev) == SelectSeq(ev, LAMBDA e : e.type # "LiquidityRemoved")

\* C25: LiquidityRemoved events are in the log and have no effect on rewards:
\* the positions (keys, liquidity, anchor) folded from the log are those folded
\* from the log without its Removed events, and a call of calculateRewards
\* returns what it would return for that shorter log.
C25_RemovedHasNoEffect ==
    LET kept == WithoutRemoved(events)
    IN /\ PositionKeys(events) = PositionKeys(kept)
       /\ \A n \in 1..Len(PositionKeys(events)) :
             LET k == PositionKeys(events)[n]
             IN /\ Liquidity(events, k) = Liquidity(kept, k)
                /\ FirstAdded(events, k).timestamp = FirstAdded(kept, k).timestamp
       /\ returned.calls > 0 =>
             returned.rewards = calculateRewards(kept, now, treasuryBalance, claimed)

\* a provider added liquidity and then removed some; the log holds both
\* events and the rewards computed give that provider the whole balance
C25_Witness ==
    /\ returned.calls > 0
    /\ Len(events) = 2
    /\ events[1].type = "LiquidityAdded" /\ events[2].type = "LiquidityRemoved"
    /\ toLowerCase(events[1].provider) = toLowerCase(events[2].provider)
    /\ Len(returned.rewards) = 1
    /\ returned.rewards[1].total = TreasuryFunds


\* the log without its j-th row
WithoutRow(ev, j) == [i \in 1..(Len(ev) - 1) |-> IF i < j THEN ev[i] ELSE ev[i + 1]]

\* C26: a LiquidityAdded notification delivered twice is in the log twice, and
\* the liquidity of the provider's position counts its liquidityDelta once for
\* each of the two rows.
C26_DuplicateRowsCounted ==
    \A i, j \in 1..Len(events) :
       (i < j /\ events[i] = events[j] /\ IsAdded(events[j])) =>
          LET k == toLowerCase(events[j].provider)
          IN /\ Len(PositionKeys(events)) = Len(PositionKeys(WithoutRow(events, j)))
             /\ Liquidity(events, k)
                   = Liquidity(WithoutRow(events, j), k) + events[j].liquidityDelta

\* the same notification was delivered twice and the rewards were computed:
\* two equal rows, one position, liquidity twice the delta
C26_Witness ==
    /\ returned.calls > 0
    /\ Len(events) = 2
    /\ events[1] = events[2]
    /\ IsAdded(events[1])
    /\ Len(returned.rewards) = 1
    /\ Liquidity(events, toLowerCase(events[1].provider))
          = 2 * events[1].liquidityDelta


\* the liquidityDelta of all LiquidityAdded rows whose provider is k in any
\* letter case, from any chain, summed
AddedDeltas(ev, k) ==
    LET rows == {i \in 1..Len(ev) :
                    ev[i].type = "LiquidityAdded" /\ toLowerCase(ev[i].provider) = k}
    IN SumOver(rows, [i \in rows |-> ev[i].liquidityDelta])

\* C27: a call of calculateRewards that returns rewards returns one entry for
\* each provider of an Added event, the providers compared without regard to
\* letter case or chain; the entry's total is the share of a position whose
\* liquidity is the sum of all those events' deltas, and its claimed is the
\* ledger value under the lowercased address.
C27_OneEntryPerProvider ==
    (returned.calls > 0 /\ returned.rewards # << >>) =>
       LET rewards == returned.rewards
           who == AddedProviders(events)
           LT(k) == AddedDeltas(events, k) * TimeHeld(events, k, now)
           T == SumOver(who, [k \in who |-> LT(k)])
       IN /\ Len(rewards) = Cardinality(who)
          /\ \A n, m \in 1..Len(rewards) :
                n # m => toLowerCase(rewards[n].provider) # toLowerCase(rewards[m].provider)
          /\ \A n \in 1..Len(rewards) :
                LET k == toLowerCase(rewards[n].provider)
                IN /\ k \in who
                   /\ rewards[n].total = BigIntDiv(LT(k) * treasuryBalance, T)
                   /\ rewards[n].claimed = ClaimedOf(claimed, k)

\* 0xA1 added liquidity on one chain and, spelt 0xa1, on the other; the
\* rewards hold one entry, with the ledger value stored under 0xa1
C27_Witness ==
    /\ returned.calls > 0
    /\ Len(events) = 2
    /\ events[1].provider = "0xA1" /\ events[2].provider = "0xa1"
    /\ events[1].chain # events[2].chain
    /\ IsAdded(events[1]) /\ IsAdded(events[2])
    /\ Len(returned.rewards) = 1
    /\ returned.rewards[1].provider = "0xA1"
    /\ returned.rewards[1].claimed = 1
    /\ claimed["0xa1"] = 1
    /\ returned.rewards[1].total = treasuryBalance
    /\ treasuryBalance = TreasuryFunds


\* C28: every Claim record of status pending_attestation was stored after the
\* 60th poll attempt; a poll that returns status 'complete' earlier leaves an
\* attested record.
C28_PendingOnlyAtCeiling ==
    \A i \in 1..Len(claims) :
       claims[i].status = "pending_attestation"
          => claims[i].attestationAttempts = maxAttempts

\* a poll that returned 'complete' with an attestation ended the polling, and
\* the claim is recorded as attested and never as pending_attestation
AttestedWhenPayloadReceived ==
    \A r \in DOMAIN req :
       /\ r \in attested =>
             /\ req[r].pc = "done"
             /\ HasRecord(r, "attested")
             /\ ~HasRecord(r, "pending_attestation")
       /\ HasRecord(r, "attested") => r \in attested


\* C29: the ledger is debited on burn: a request calls depositForBurn only
\* after its approve was confirmed, polls only after its burn of the claim
\* amount was confirmed, and has no Claim record while it polls; and every
\* step that raises a provider's claimed value is the end of the polling of a
\* request of that provider and raises it by the amount that request burned.
C29_DebitOnBurn ==
    [][/\ \A r \in DOMAIN req :
             /\ req'[r].pc \in {"burn", "burnWait", "poll"} =>
                   <<r, "approve">> \in submitted'
             /\ req'[r].pc = "poll" =>
                   /\ <<r, "burn">> \in submitted'
                   /\ burned'[r] > 0
                   /\ burned'[r] = req'[r].claimAmount
                   /\ RecordsOf(claims', r) = {}
       /\ \A k \in LedgerKeys :
             ClaimedOf(claimed', k) > ClaimedOf(claimed, k) =>
                \E r \in DOMAIN req :
                   /\ req[r].pc = "poll" /\ req'[r].pc = "done"
                   /\ toLowerCase(body[r].address) = k
                   /\ burned[r] > 0
                   /\ ClaimedOf(claimed', k) - ClaimedOf(claimed, k) = burned[r]]_vars

\* a claim went through approve, burn and polling and was then debited: the
\* treasury is short of what was burned and the ledger holds that amount
C29_Witness ==
    \E r \in DOMAIN req :
       /\ req[r].pc = "done"
       /\ {<<r, "approve">>, <<r, "burn">>} \subseteq submitted
       /\ burned[r] > 0
       /\ treasuryBalance = TreasuryFunds - burned[r]
       /\ RecordsOf(claims, r) # {}
       /\ ClaimedOf(claimed, toLowerCase(body[r].address)) = burned[r]


\* C30: a poll attempt that does not end the polling, as one in which the
\* attestation service throws, is counted and changes nothing else, and the
\* request goes on polling; the step that ends the polling stores a Claim
\* record of status attested or pending_attestation and debits the ledger by
\* the claim amount; and under FairSpec every polling claim reaches that step.
C30_PollErrorDoesNotFailClaim ==
    /\ [][\A r \in DOMAIN req :
            (req[r].pc = "poll" /\ req'[r] # req[r]) =>
               \/ /\ req'[r] = [req[r] EXCEPT !.attemptCount = @ + 1]
                  /\ req'[r].attemptCount < maxAttempts
                  /\ UNCHANGED <<claims, claimed, disk, sent, attested>>
               \/ /\ req'[r].pc = "done"
                  /\ Cardinality(RecordsOf(claims', r)) = 1
                  /\ \A i \in RecordsOf(claims', r) :
                        claims'[i].status \in {"attested", "pending_attestation"}
                  /\ ClaimedOf(claimed', toLowerCase(body[r].address))
                        = ClaimedOf(claimed, toLowerCase(body[r].address))
                             + req[r].claimAmount]_vars
    /\ \A r \in Reqs :
          (req[r].pc = "poll" /\ req[r].attemptCount > 0) ~>
             (HasRecord(r, "attested") \/ HasRecord(r, "pending_attestation"))

\* a poll attempt that threw or brought a status other than 'complete' has
\* been counted (the two leave the same state): the request is still polling,
\* unanswered, with its burn confirmed and its debit still to come
C30_Witness ==
    \E r \in DOMAIN req :
       /\ req[r].pc = "poll"
       /\ req[r].attemptCount = 1
       /\ burned[r] > 0
       /\ sent[r] = << >>
       /\ RecordsOf(claims, r) = {}
       /\ ClaimedOf(claimed, toLowerCase(body[r].address)) = 0


\* C31: with two claims in flight together no ledger update is lost: in every
\* state between two handler steps each provider's claimed value is the sum of
\* the amounts of that provider's stored Claim records (the ledger starts
\* empty), a request has a record exactly when it has been debited, and the
\* file holds that ledger and those records.
C31_NoLostUpdate ==
    /\ \A k \in LedgerKeys : ClaimedOf(claimed, k) = RecordedFor(claims, k)
    /\ \A i \in 1..Len(claims) :
          /\ toLowerCase(claims[i].recipient) \in DOMAIN claimed
          /\ claims[i].amount > 0
    /\ \A r \in DOMAIN req : Cardinality(RecordsOf(claims, r)) <= 1
    /\ disk.claimed = claimed /\ disk.claims = claims

\* two claims of one provider that were in flight together have both ended,
\* one attested and one queued, and the ledger holds both amounts
C31_Witness ==
    /\ Len(claims) = 2
    /\ toLowerCase(claims[1].recipient) = toLowerCase(claims[2].recipient)
    /\ claims[1].status # claims[2].status
    /\ \A r \in DOMAIN req : req[r].pc = "done"
    /\ ClaimedOf(claimed, toLowerCase(claims[1].recipient))
          = claims[1].amount + claims[2].amount
    /\ claims[1].amount + claims[2].amount = TreasuryFunds


\* the pending reward of address a that calculateRewards returns for the log
\* ev, the clock t, the balance and the ledger (0 when it returns no entry)
PendingOf(a, ev, t, balance, ledger) ==
    LET rewards == calculateRewards(ev, t, balance, ledger)
        i == FindReward(rewards, toLowerCase(a))
    IN IF i = 0 THEN 0 ELSE rewards[i].pending

\* C32: in the step that answers a claim 200, the remaining amount of the
\* response (pending at validation minus the claim amount) is the provider's
\* pending reward as calculateRewards computes it right after the step, from
\* the same log and clock, the treasury balance after the burn and the ledger
\* after the debit.
C32_RemainingIsPendingAfterwards ==
    [][\A r \in DOMAIN req :
          (req[r].pc = "poll" /\ req'[r].pc = "done"
             /\ Len(sent'[r]) = 1 /\ sent'[r][1].code = 200) =>
             sent'[r][1].remaining
                = PendingOf(body[r].address, events', now', treasuryBalance', claimed')]_vars

\* what does hold: the pending reward right after a claim is never more than
\* the remaining amount the response reports
PendingAfterwardsAtMostRemaining ==
    [][\A r \in DOMAIN req :
          (req[r].pc = "poll" /\ req'[r].pc = "done"
             /\ Len(sent'[r]) = 1 /\ sent'[r][1].code = 200
             /\ NonNegativeTimes(events, now)) =>
             PendingOf(body[r].address, events', now', treasuryBalance', claimed')
                <= sent'[r][1].remaining]_vars


\* C33: when a claim is settled, every other provider's pending reward,
\* computed from the same log and clock with the treasury balance after the
\* burn and the ledger after the debit, is what it was with the balance before
\* the burn and the ledger before the debit.
C33_OthersPendingUnchanged ==
    [][\A r \in DOMAIN req :
          (req[r].pc = "poll" /\ req'[r].pc = "done" /\ RecordsOf(claims', r) # {}) =>
             \A other \in EventAddrs :
                toLowerCase(other) # toLowerCase(body[r].address) =>
                   PendingOf(other, events, now, treasuryBalance', claimed')
                      = PendingOf(other, events, now, treasuryBalance + burned[r], claimed)]_vars

\* what does hold: the debit of the ledger, taken by itself, leaves every
\* other provider's pending reward as it was
DebitLeavesOthersPending ==
    [][\A r \in DOMAIN req :
          (req[r].pc = "poll" /\ req'[r].pc = "done" /\ RecordsOf(claims', r) # {}) =>
             \A other \in EventAddrs :
                toLowerCase(other) # toLowerCase(body[r].address) =>
                   PendingOf(other, events, now, treasuryBalance, claimed')
                      = PendingOf(other, events, now, treasuryBalance, claimed)]_vars


\* C34: a request whose destinationChainId is not a key of CCTP_CONTRACTS
\* (so neither the treasury chain nor a chain with bridge contracts) has
\* submitted no transaction, neither approve nor burn.
C34_UnknownChainSubmitsNothing ==
    \A r \in DOMAIN req :
       (req[r].pc # "idle" /\ body[r].destinationChainId \notin CCTP_CONTRACTS) =>
          /\ <<r, "approve">> \notin submitted
          /\ <<r, "burn">> \notin submitted

\* what does hold: such a request never submits the burn, and ends with an
\* error response
UnknownChainBurnsNothing ==
    \A r \in DOMAIN req :
       (req[r].pc # "idle" /\ body[r].destinationChainId \notin CCTP_CONTRACTS) =>
          /\ <<r, "burn">> \notin submitted
          /\ burned[r] = 0
          /\ req[r].pc \notin {"burn", "burnWait", "poll"}
          /\ req[r].pc = "done" => sent[r][1].code \in {400, 500}


\* data.json holds no document
Unreadable(file) == "events" \notin DOMAIN file

\* C37: loadData gives the empty store for a data.json that is missing, blank
\* or unparseable, and otherwise the parsed document with an empty claims
\* list if it has none; and the store in memory is always what loadData gives
\* for the file, so that after a restart on a damaged file the log and the
\* claims list are empty and every provider's claimed value is 0.
C37_LoadData ==
    /\ \A file \in LoadedFiles \cup {disk} :
          /\ Unreadable(file) =>
                /\ loadData(file).events = << >>
                /\ DOMAIN loadData(file).claimed = {}
                /\ loadData(file).claims = << >>
          /\ ~Unreadable(file) =>
                /\ loadData(file).events = file.events
                /\ loadData(file).claimed = file.claimed
                /\ loadData(file).claims
                      = (IF "claims" \in DOMAIN file THEN file.claims ELSE << >>)
    /\ events = loadData(disk).events
    /\ claimed = loadData(disk).claimed
    /\ claims = loadData(disk).claims
    /\ Unreadable(disk) =>
          /\ events = << >> /\ claims = << >>
          /\ \A k \in LedgerKeys : ClaimedOf(claimed, k) = 0

\* a claim was burned, debited and answered 200; then a write of data.json
\* was cut short and the agent restarted: the ledger is empty again
C37_Witness ==
    \E r \in DOMAIN req :
       /\ Len(sent[r]) = 1 /\ sent[r][1].code = 200
       /\ burned[r] > 0
       /\ disk = TornFile
       /\ \A k \in LedgerKeys : ClaimedOf(claimed, k) = 0
       /\ events = << >>


\* C35: in the first agent, the step that ends a successful claim (minted and
\* answered 200) leaves the provider's claimed value at what it was plus the
\* amount paid out by this claim, so that the value is the cumulative sum of
\* the payouts and never decreases.
C35_MintLedgerCumulative ==
    [][\A r \in DOMAIN req :
          (req[r].pc = "mintWait" /\ req'[r].pc = "done"
             /\ Len(sent'[r]) = 1 /\ sent'[r][1].code = 200) =>
             LET k == toLowerCase(body[r].address)
             IN /\ ClaimedOf(claimed', k) = ClaimedOf(claimed, k) + burned[r]
                /\ ClaimedOf(claimed', k) >= ClaimedOf(claimed, k)]_vars

\* C36: in the first agent, the step that ends a claim whose burn was
\* confirmed, because the 60th poll brought no attestation or because the
\* mint on the destination failed, raises the provider's claimed value by the
\* burned amount.
C36_MintFailureStillDebits ==
    [][\A r \in DOMAIN req :
          (/\ burned[r] > 0
           /\ req'[r].pc = "done"
           /\ \/ req[r].pc = "poll" /\ req[r].attemptCount = maxAttempts - 1
              \/ req[r].pc = "mint"
              \/ req[r].pc = "mintWait" /\ <<r, "minted">> \notin submitted') =>
             LET k == toLowerCase(body[r].address)
             IN ClaimedOf(claimed', k) = ClaimedOf(claimed, k) + burned[r]]_vars

====
